---- MODULE Spec2Model ----
(***************************************************************************)
(* la-pompe-a-huile (app.py): the incremental harvest of a paginated       *)
(* disclosure listing into a persistent cache (`fetch`) and the rendering  *)
(* of the cached records into report files (`report`).                     *)
(*                                                                         *)
(* One command runs at a time.  A fetch run is followed step by step:      *)
(* browser bootstrap, one POST per page, one GET per deduplicated row,     *)
(* then one cache_object call per enriched record.                         *)
(***************************************************************************)
EXTENDS Integers, Sequences, FiniteSets, TLC

(***************************************************************************)
(* Bounds of the model.                                                    *)
(***************************************************************************)
\* the rows the portal can list are HtmlRow(1) .. HtmlRow(NumRows)
NumRows == 2
\* rows per result page ('lastPageSize' of the payload, scaled down)
PageSize == 4
\* longest result list the portal serves
MaxFeed == 5

VARIABLES
    feed,        \* the portal: the result list, newest first (row numbers)
    cache,       \* the '.cache' store: key -> stored record
    cacheOpen,   \* TRUE while a SqliteDict handle on '.cache' is open
    browser,     \* "closed" | "open": the headless Firefox
    inflight,    \* "none" | "page" | "detail": the HTTP request under way
    pc,          \* position of the running command
    page,        \* scrap_site: the loop variable `page`
    html,        \* scrap_site: <<resp.text>> of the current page, <<>> before it
    parsed,      \* the records parse_page yields for the current page
    pending,     \* add_summary: deduplicated records not yet enriched
    items,       \* scrap_site: enriched records of the current page
    i,           \* index in items of the record being yielded
    idx,         \* fetch_new_events: enumerate's counter
    n,           \* fetch_new_events: the variable n
    printed,     \* stdout: the numbers printed as 'Cached N new records.'
    hit,         \* TRUE once cache_object returned True in this run
    offered,     \* records passed to cache_object in this run
    cache0,      \* the cache when the running (or last) fetch run started
    pageCache,   \* the cache when the request for the current page was sent
    pageReqs,    \* POST requests sent in this run
    detailReqs,  \* GET requests sent in this run
    abortedAt,   \* <<P>> when the previous fetch run, on this feed, aborted in page P
    written,     \* report: the (path, record) files written by the last report
    report,      \* <<[org, summary]>>: the filter tuples of the last report
    prevDone,    \* TRUE when the previous fetch run, on this feed, completed
    browserLog   \* what the running (or last) fetch run did to the browser

vars == <<feed, cache, cacheOpen, browser, inflight, pc, page, html, parsed,
          pending, items, i, idx, n, printed, hit, offered, cache0, pageCache,
          pageReqs, detailReqs, abortedAt, written, report, prevDone,
          browserLog>>

(***************************************************************************)
(* The portal's data.  Text is a sequence of characters; a character is a  *)
(* number, odd for an upper-case letter and the next even number for the   *)
(* same letter in lower case: 1..6 are A a B b C c.  A timestamp is a day  *)
(* and a time of day; a title is its sequence of words.                    *)
(***************************************************************************)
Min(a, b) == IF a < b THEN a ELSE b

Rows == 1..NumRows

\* the markup of one result row: a timestamp cell, then a cell with the
\* organization anchor and the title anchor (whose href is the detail url)
HtmlRow(r) ==
    [td0 |-> <<1 + (r \div 4), r % 3>>,
     a0  |-> <<1 + (r % 4)>>,
     a1  |-> <<1 + (r \div 4), 7>>,
     href |-> r]

\* the text of div#cont_wrap of the detail page behind a url: "cCC" behind
\* urls 1 and 3, "BCBbaC" behind url 2, two letters behind the others
DetailText(url) ==
    CASE url = 1 -> <<6, 5, 5>>
      [] url = 2 -> <<3, 5, 3, 4, 2, 5>>
      [] url = 3 -> <<6, 5, 5>>
      [] OTHER   -> <<1 + (url % 6), 3>>

\* rows of result page p: PageSize rows per page
PageRows(f, p) ==
    SubSeq(f, (p - 1) * PageSize + 1, Min(p * PageSize, Len(f)))

\* the markup the portal may answer for page p: the table of its rows; past
\* the end of the results either an empty table or a page without a table
Markups(f, p) ==
    LET rows == [k \in 1..Len(PageRows(f, p)) |-> HtmlRow(PageRows(f, p)[k])]
    IN  IF rows = <<>>
        THEN {[table |-> TRUE, rows |-> <<>>], [table |-> FALSE, rows |-> <<>>]}
        ELSE {[table |-> TRUE, rows |-> rows]}

RECURSIVE SeqsUpTo(_, _)
SeqsUpTo(S, k) ==
    IF k = 0 THEN {<<>>}
    ELSE LET shorter == SeqsUpTo(S, k - 1)
         IN  shorter \cup {Append(s, x) : s \in {t \in shorter : Len(t) = k - 1}, x \in S}

Feeds == SeqsUpTo(Rows, MaxFeed)

(***************************************************************************)
(* The pure functions of app.py.                                           *)
(***************************************************************************)
\* the field names a record can have, in the order sort_keys puts them
KeyOrder == <<"org", "summary", "title", "ts", "url">>

\* the order in which parse_page and add_summary insert the fields of a dict
InsertionOrder == <<"ts", "url", "org", "title", "summary">>

\* a dict as Python holds it: its (key, value) items in insertion order
dict_items(obj) ==
    LET keys == SelectSeq(InsertionOrder, LAMBDA k : k \in DOMAIN obj)
    IN  [j \in 1..Len(keys) |-> <<keys[j], obj[keys[j]]>>]

\* json.dumps(obj) without sort_keys: the items as the dict holds them
dumps_insertion(its) == its

\* json.dumps(obj, sort_keys=True): the items in key order
dumps(its) ==
    LET item(k) == SelectSeq(its, LAMBDA it : it[1] = k)
    IN  item(KeyOrder[1]) \o item(KeyOrder[2]) \o item(KeyOrder[3])
            \o item(KeyOrder[4]) \o item(KeyOrder[5])

\* make_hash: the digest of json.dumps(obj, sort_keys=True), i.e. of the
\* (key, value) pairs of obj in key order; the digest itself is taken to be
\* collision-free, so the serialisation stands for it
make_hash(obj) == dumps(dict_items(obj))

\* parse_page raises (soup.find('table') is None) when the markup has no table
ParseFails(h) == ~h.table

\* parse_page: one record per <tr> of the table, in page order; nothing when
\* the table has no row
parse_page(h) ==
    [k \in 1..Len(h.rows) |->
        [ts    |-> h.rows[k].td0,
         url   |-> h.rows[k].href,
         org   |-> h.rows[k].a0,
         title |-> h.rows[k].a1]]

\* zip(map(make_hash, items), items) over ONE iterator `items`: each pair
\* takes the hash of the next element and then, as its value, the element
\* after that; a last unpaired element is consumed and dropped
RECURSIVE ZipShared(_)
ZipShared(gen) ==
    IF Len(gen) < 2 THEN <<>>
    ELSE <<<<make_hash(gen[1]), gen[2]>>>> \o ZipShared(SubSeq(gen, 3, Len(gen)))

\* dict(pairs): a repeated key keeps its first position and takes the last value
RECURSIVE DictOf(_)
DictOf(pairs) ==
    IF pairs = <<>> THEN <<>>
    ELSE LET d    == DictOf(SubSeq(pairs, 1, Len(pairs) - 1))
             last == pairs[Len(pairs)]
         IN  IF \E k \in 1..Len(d) : d[k][1] = last[1]
             THEN [k \in 1..Len(d) |-> IF d[k][1] = last[1] THEN last ELSE d[k]]
             ELSE Append(d, last)

\* deduplicate, applied to the generator parse_page returns
deduplicate(gen) ==
    LET d == DictOf(ZipShared(gen))
    IN  [k \in 1..Len(d) |-> d[k][2]]

\* add_summary: the record with the detail page's text as 'summary'
Enrich(item) ==
    [ts |-> item.ts, url |-> item.url, org |-> item.org, title |-> item.title,
     summary |-> DetailText(item.url)]

\* the enriched record of portal row r
Record(r) == Enrich(parse_page([table |-> TRUE, rows |-> <<HtmlRow(r)>>])[1])

\* cache_object without `cache[key] = obj; cache.commit()`
cache_object_nocommit(c, obj) ==
    [existed |-> make_hash(obj) \in DOMAIN c, store |-> c]

\* cache_object on a store opened afresh (emptied) by every call
cache_object_truncate(c, obj) ==
    [existed |-> make_hash(obj) \in DOMAIN c, store |-> (make_hash(obj) :> obj)]

\* cache_object without the `if key in cache` test
cache_object_blind(c, obj) ==
    [existed |-> FALSE, store |-> (make_hash(obj) :> obj) @@ c]

\* cache_object on store c: the returned flag and the store afterwards
cache_object(c, obj) ==
    LET key == make_hash(obj)
    IN  IF key \in DOMAIN c
        THEN [existed |-> TRUE, store |-> c]
        ELSE [existed |-> FALSE, store |-> (key :> obj) @@ c]

\* get_session_cookies with driver.close() after the try block's statements
\* instead of in `finally`
driver_close_unprotected(raising) == IF raising THEN "open" ELSE "closed"

\* get_session_cookies: finally: driver.close(), run whether or not
\* driver.get raised
driver_close(raising) == "closed"

\* cache_object closing the store at its end only, not at `return True`
store_after_return_leaky(existed) == existed

\* cache_object: is the store open after the return?  The with block closes
\* it at `return True` as well as at its end
store_after_return(existed) == FALSE

\* scrap_site without `if not items: break`
PageIsLast_never(its) == FALSE

\* scrap_site: `if not items: break`
PageIsLast(its) == its = <<>>

\* scrap_site yielding from add_summary directly, record by record
EnrichDone_lazy(pend) == TRUE

\* scrap_site: list(add_summary(...)) drains the generator before any record
\* is yielded
EnrichDone(pend) == pend = <<>>

\* fetch_new_events ignoring what cache_object returns
fetch_loop_nobreak(existed, more) == IF more THEN "yield" ELSE "sleep"

\* fetch_new_events: `if cache_object(item): break`; otherwise the next
\* record of the page, or the sleep before the next page
fetch_loop(existed, more) ==
    IF existed THEN "done" ELSE IF more THEN "yield" ELSE "sleep"

(***************************************************************************)
(* The report's pure functions.                                            *)
(***************************************************************************)
\* str.lower() on one character and on a text
lower(c) == IF c % 2 = 1 THEN c + 1 ELSE c
Lower(text) == [k \in 1..Len(text) |-> lower(text[k])]

\* `term in text` on strings
Contains(text, term) ==
    \E s \in 0..(Len(text) - Len(term)) : SubSeq(text, s + 1, s + Len(term)) = term

\* includes comparing the term with the text as they are written
includes_nolower(text, terms) ==
    terms = <<>> \/ \E k \in 1..Len(terms) : Contains(text, terms[k])

\* includes(text, terms)
includes(text, terms) ==
    terms = <<>> \/ \E k \in 1..Len(terms) : Contains(Lower(text), Lower(terms[k]))

\* match_search(item, org, summary)
match_search(item, org, summary) ==
    includes(item.org, org) /\ includes(item.summary, summary)

\* make_hash(summary)[:6]: the first six hex digits of the SHA-1 of
\* json.dumps(summary), as a number, for the texts of the model:
\* "cCC" and "BCBbaC" (both c41f9c), "CB", "cB", "AB", "aB"
sha1_head6(text) ==
    CASE text = <<6, 5, 5>>          -> 12853148
      [] text = <<3, 5, 3, 4, 2, 5>> -> 12853148
      [] text = <<5, 3>>             -> 4555179
      [] text = <<6, 3>>             -> 11078766
      [] text = <<1, 3>>             -> 1604270
      [] text = <<2, 3>>             -> 16566631

\* make_path: the date directory (the day of ts), the slug of the title
\* without the last of its (at most five) '-'-separated parts, and the head
\* of the summary's hash
make_path(ts, title, summary) ==
    [date |-> ts[1],
     slug |-> SubSeq(title, 1, Min(Len(title), 5) - 1),
     hash |-> sha1_head6(summary)]

\* SqliteDict('.cache', flag='n'): a store emptied when it is opened
open_store_new(c) == [k \in {} |-> k]

\* save_report: with SqliteDict('.cache') as cache: the default flag opens
\* the store with what it holds; nothing is assigned to it or committed
open_store(c) == c

\* the filter tuples a report command is given
FilterTerms == {<<>>, <<<<1>>>>, <<<<4>>, <<6>>>>}

(***************************************************************************)
(* The state machine.                                                      *)
(***************************************************************************)
EmptyStore == [k \in {} |-> k]

\* no command is running
Terminal == pc \in {"idle", "done", "aborted"}

\* one more page than any result list has: the crawl never asks beyond it
PageCap == MaxFeed + 2

Init ==
    /\ feed \in Feeds
    /\ cache = EmptyStore
    /\ cacheOpen = FALSE
    /\ browser = "closed"
    /\ inflight = "none"
    /\ pc = "idle"
    /\ page = 0
    /\ html = <<>>
    /\ parsed = <<>>
    /\ pending = <<>>
    /\ items = <<>>
    /\ i = 0
    /\ idx = 0
    /\ n = 0
    /\ printed = <<>>
    /\ hit = FALSE
    /\ offered = {}
    /\ cache0 = EmptyStore
    /\ pageCache = EmptyStore
    /\ pageReqs = 0
    /\ detailReqs = 0
    /\ abortedAt = <<>>
    /\ written = {}
    /\ report = <<>>
    /\ prevDone = FALSE
    /\ browserLog = <<>>

\* a new process: nothing of the previous command's run is left but the cache
FreshRun ==
    /\ page' = 0
    /\ html' = <<>>
    /\ parsed' = <<>>
    /\ pending' = <<>>
    /\ items' = <<>>
    /\ i' = 0
    /\ idx' = 0
    /\ n' = 0
    /\ printed' = <<>>
    /\ hit' = FALSE
    /\ offered' = {}
    /\ cache0' = cache
    /\ pageCache' = cache
    /\ pageReqs' = 0
    /\ detailReqs' = 0
    /\ browserLog' = <<>>

\* cli() returns and the process of the finished command exits; a report or
\* a change of the listing starts from idle, while a fetch that follows a
\* fetch directly (StartFetch) still knows how the previous one ended
ExitCommand ==
    /\ pc \in {"done", "aborted"}
    /\ pc' = "idle"
    /\ abortedAt' = <<>>
    /\ prevDone' = FALSE
    /\ written' = {}
    /\ report' = <<>>
    /\ FreshRun
    /\ UNCHANGED <<feed, cache, cacheOpen, browser, inflight>>

\* the portal's result list changes between two commands: a new row is
\* published at the top, or the oldest row leaves the date range
SiteUpdate ==
    /\ pc = "idle"
    /\ \/ \E r \in Rows : Len(feed) < MaxFeed /\ feed' = <<r>> \o feed
       \/ feed # <<>> /\ feed' = SubSeq(feed, 1, Len(feed) - 1)
    /\ pc' = "idle"
    /\ abortedAt' = <<>>
    /\ prevDone' = FALSE
    /\ written' = {}
    /\ report' = <<>>
    /\ FreshRun
    /\ UNCHANGED <<cache, cacheOpen, browser, inflight>>

\* `fetch`: fetch_new_events sets n = 0 and asks scrap_site for its first item
StartFetch ==
    /\ Terminal
    /\ pc' = "launch"
    /\ abortedAt' = IF pc = "aborted" /\ page >= 1 THEN <<page>> ELSE <<>>
    /\ prevDone' = (pc = "done")
    /\ written' = {}
    /\ report' = <<>>
    /\ FreshRun
    /\ UNCHANGED <<feed, cache, cacheOpen, browser, inflight>>

\* get_session_cookies: webdriver.Firefox(options=opts)
LaunchBrowser ==
    /\ pc = "launch"
    /\ \E ok \in BOOLEAN :
          IF ok THEN /\ browser' = "open"
                     /\ browserLog' = Append(browserLog, "launch")
                     /\ pc' = "navigate"
                ELSE /\ UNCHANGED <<browser, browserLog>>
                     /\ pc' = "aborted"
    /\ UNCHANGED <<feed, cache, cacheOpen, inflight, page, html, parsed, pending,
                   items, i, idx, n, printed, hit, offered, cache0, pageCache,
                   pageReqs, detailReqs, abortedAt, written, report,
                   prevDone>>

\* get_session_cookies: driver.get(HOME_URL); driver.get_cookies()
NavigateHome ==
    /\ pc = "navigate"
    /\ \E ok \in BOOLEAN : pc' = IF ok THEN "finally" ELSE "finally_raise"
    /\ UNCHANGED <<feed, cache, cacheOpen, browser, inflight, page, html, parsed,
                   pending, items, i, idx, n, printed, hit, offered, cache0,
                   pageCache, pageReqs, detailReqs, abortedAt, written, report,
                   prevDone, browserLog>>

\* get_session_cookies: finally: driver.close(); then the cookies are set on
\* the session and scrap_site enters its loop with page = 1
CloseBrowser ==
    /\ pc \in {"finally", "finally_raise"}
    /\ browser' = driver_close(pc = "finally_raise")
    /\ browserLog' = Append(browserLog, "close")
    /\ IF pc = "finally" THEN pc' = "post" /\ page' = 1
                         ELSE pc' = "aborted" /\ page' = page
    /\ UNCHANGED <<feed, cache, cacheOpen, inflight, html, parsed, pending, items,
                   i, idx, n, printed, hit, offered, cache0, pageCache, pageReqs,
                   detailReqs, abortedAt, written, report,
                   prevDone>>

\* scrap_site: client.post(data=make_payload(page, days)) is sent
SendPost ==
    /\ pc = "post"
    /\ page <= PageCap
    /\ inflight' = "page"
    /\ pageReqs' = pageReqs + 1
    /\ pageCache' = cache
    /\ html' = <<>>
    /\ parsed' = <<>>
    /\ items' = <<>>
    /\ pc' = "posted"
    /\ UNCHANGED <<feed, cache, cacheOpen, browser, page, pending, i, idx, n,
                   printed, hit, offered, cache0, detailReqs, abortedAt, written, report,
                   prevDone, browserLog>>

\* scrap_site: the response arrives; assert status 200; parse_page and
\* deduplicate run when add_summary asks for the first record
RecvPost ==
    /\ pc = "posted"
    /\ inflight' = "none"
    /\ \E ok \in BOOLEAN, h \in Markups(feed, page) :
          IF ~ok
          THEN /\ pc' = "aborted"
               /\ UNCHANGED <<html, parsed, pending, items, i, printed>>
          ELSE IF ParseFails(h)
          THEN /\ pc' = "aborted"
               /\ html' = <<h>>
               /\ UNCHANGED <<parsed, pending, items, i, printed>>
          ELSE /\ html' = <<h>>
               /\ parsed' = parse_page(h)
               /\ pending' = deduplicate(parse_page(h))
               /\ items' = <<>>
               /\ i' = 1
               /\ IF pending' # <<>>
                  THEN pc' = "detail" /\ printed' = printed
                  ELSE IF PageIsLast(items')
                  THEN pc' = "done" /\ printed' = Append(printed, n)
                  ELSE pc' = "sleep" /\ printed' = printed
    /\ UNCHANGED <<feed, cache, cacheOpen, browser, page, idx, n, hit, offered,
                   cache0, pageCache, pageReqs, detailReqs, abortedAt, written, report,
                   prevDone, browserLog>>

\* add_summary: requests.get(item['url']) is sent
SendGet ==
    /\ pc = "detail"
    /\ inflight' = "detail"
    /\ detailReqs' = detailReqs + 1
    /\ pc' = "getting"
    /\ UNCHANGED <<feed, cache, cacheOpen, browser, page, html, parsed, pending,
                   items, i, idx, n, printed, hit, offered, cache0, pageCache,
                   pageReqs, abortedAt, written, report,
                   prevDone, browserLog>>

\* add_summary: the detail page arrives; assert status 200 and find
\* div#cont_wrap; the enriched record joins the page's list
RecvGet ==
    /\ pc = "getting"
    /\ inflight' = "none"
    /\ \E ok \in BOOLEAN :
          IF ~ok
          THEN pc' = "aborted" /\ UNCHANGED <<pending, items>>
          ELSE /\ items' = Append(items, Enrich(Head(pending)))
               /\ pending' = Tail(pending)
               /\ pc' = IF EnrichDone(pending') THEN "yield" ELSE "detail"
    /\ UNCHANGED <<feed, cache, cacheOpen, browser, page, html, parsed, i, idx, n,
                   printed, hit, offered, cache0, pageCache, pageReqs, detailReqs,
                   abortedAt, written, report,
                   prevDone, browserLog>>

\* scrap_site yields items[i]; fetch_new_events binds n and calls
\* cache_object, which opens the store
YieldItem ==
    /\ pc = "yield"
    /\ n' = idx
    /\ idx' = idx + 1
    /\ offered' = offered \cup {items[i]}
    /\ cacheOpen' = TRUE
    /\ pc' = "cache"
    /\ UNCHANGED <<feed, cache, browser, inflight, page, html, parsed, pending,
                   items, i, printed, hit, cache0, pageCache, pageReqs, detailReqs,
                   abortedAt, written, report,
                   prevDone, browserLog>>

\* what follows a cache_object call that returned `existed`
AfterCacheObject(existed) ==
    LET next == fetch_loop(existed, i < Len(items))
    IN  /\ hit' = (hit \/ existed)
        /\ i' = i + 1
        \* items holds the whole page, so nothing is pending at its end
        /\ pc' = IF next = "sleep" /\ pending # <<>> THEN "detail" ELSE next
        /\ printed' = IF next = "done" THEN Append(printed, n) ELSE printed

\* cache_object: `if key in cache: return True`; the with block closes the store
CacheHit ==
    /\ pc = "cache"
    /\ cache_object(cache, items[i]).existed
    /\ cache' = cache_object(cache, items[i]).store
    /\ cacheOpen' = store_after_return(TRUE)
    /\ AfterCacheObject(TRUE)
    /\ UNCHANGED <<feed, browser, inflight, page, html, parsed, pending, items,
                   idx, n, offered, cache0, pageCache, pageReqs, detailReqs,
                   abortedAt, written, report,
                   prevDone, browserLog>>

\* cache_object: cache[key] = obj; cache.commit(); the with block closes the
\* store; return False
CacheInsert ==
    /\ pc = "cache"
    /\ ~cache_object(cache, items[i]).existed
    /\ cache' = cache_object(cache, items[i]).store
    /\ cacheOpen' = store_after_return(FALSE)
    /\ AfterCacheObject(FALSE)
    /\ UNCHANGED <<feed, browser, inflight, page, html, parsed, pending, items,
                   idx, n, offered, cache0, pageCache, pageReqs, detailReqs,
                   abortedAt, written, report,
                   prevDone, browserLog>>

\* scrap_site: time.sleep(1), then the next page number of count()
Sleep ==
    /\ pc = "sleep"
    /\ page' = page + 1
    /\ pc' = "post"
    /\ UNCHANGED <<feed, cache, cacheOpen, browser, inflight, html, parsed,
                   pending, items, i, idx, n, printed, hit, offered, cache0,
                   pageCache, pageReqs, detailReqs, abortedAt, written, report,
                   prevDone, browserLog>>

\* `report`: save_report writes one file per matching cached record
SaveReport ==
    /\ pc = "idle"
    /\ \E org \in FilterTerms, summary \in FilterTerms :
          /\ FreshRun
          /\ written' = {<<make_path(cache[k].ts, cache[k].title, cache[k].summary), cache[k]>> :
                            k \in {x \in DOMAIN cache : match_search(cache[x], org, summary)}}
          /\ report' = <<[org |-> org, summary |-> summary]>>
    /\ cache' = open_store(cache)
    /\ pc' = "idle"
    /\ abortedAt' = <<>>
    /\ prevDone' = FALSE
    /\ UNCHANGED <<feed, cacheOpen, browser, inflight>>

Next ==
    \/ ExitCommand
    \/ SiteUpdate
    \/ StartFetch
    \/ LaunchBrowser
    \/ NavigateHome
    \/ CloseBrowser
    \/ SendPost
    \/ RecvPost
    \/ SendGet
    \/ RecvGet
    \/ YieldItem
    \/ CacheHit
    \/ CacheInsert
    \/ Sleep
    \/ SaveReport

Spec == Init /\ [][Next]_vars

(***************************************************************************)
(* The end-to-end example: the cache holds the records of rows 1..5 and    *)
(* the first page lists rows 6, 3, 7.                                      *)
(***************************************************************************)
E2EFeed == <<6, 3, 7>>

E2EStore == [k \in {make_hash(Record(r)) : r \in 1..5} |->
                CHOOSE o \in {Record(r) : r \in 1..5} : make_hash(o) = k]

InitE2E ==
    /\ feed = E2EFeed
    /\ cache = E2EStore
    /\ cacheOpen = FALSE
    /\ browser = "closed"
    /\ inflight = "none"
    /\ pc = "idle"
    /\ page = 0
    /\ html = <<>>
    /\ parsed = <<>>
    /\ pending = <<>>
    /\ items = <<>>
    /\ i = 0
    /\ idx = 0
    /\ n = 0
    /\ printed = <<>>
    /\ hit = FALSE
    /\ offered = {}
    /\ cache0 = E2EStore
    /\ pageCache = E2EStore
    /\ pageReqs = 0
    /\ detailReqs = 0
    /\ abortedAt = <<>>
    /\ written = {}
    /\ report = <<>>
    /\ prevDone = FALSE
    /\ browserLog = <<>>

SpecE2E == InitE2E /\ [][Next]_vars

(***************************************************************************)
(* Properties.                                                             *)
(***************************************************************************)
\* keys the running (or last) fetch run added to the cache
NewKeys == DOMAIN cache \ DOMAIN cache0

\* the distinct elements of s, each once, in first-seen order
RECURSIVE FirstSeen(_)
FirstSeen(s) ==
    IF s = <<>> THEN <<>>
    ELSE LET init == FirstSeen(SubSeq(s, 1, Len(s) - 1))
             last == s[Len(s)]
         IN  IF \E k \in 1..Len(init) : init[k] = last THEN init ELSE Append(init, last)

\* rows of the feed from page p on
RowsFrom(p) == {feed[j] : j \in ((p - 1) * PageSize + 1)..Len(feed)}

\* C1: when a fetch run ends normally, the number it prints as 'Cached N new
\* records' is the number of keys the run added to the cache.
C1_PrintedIsNewKeys ==
    pc = "done" => printed = <<Cardinality(NewKeys)>>

\* C2: deduplicate applied to the sequence parse_page yields returns the
\* distinct records of the page, each once, in first-seen order.
C2_DedupFirstSeen ==
    (pc \in {"detail", "done"} /\ html # <<>> /\ items = <<>>)
        => pending = FirstSeen(parsed)

\* C3: from a cache holding h1..h5, a run whose first page lists h6, h3, h7
\* inserts h6, finds h3 existing and stops, never offers h7 and prints 1.
C3_EndToEnd ==
    (pc = "done" /\ feed = E2EFeed /\ cache0 = E2EStore)
        => /\ make_hash(Record(6)) \in DOMAIN cache
           /\ hit
           /\ Record(3) \in offered
           /\ Record(7) \notin offered
           /\ make_hash(Record(7)) \notin DOMAIN cache
           /\ printed = <<1>>

\* C4: once cache_object has reported an existing key, the run is over: it
\* inserts nothing more, offers nothing more and sends no further page or
\* detail request.
C4_StopOnHit ==
    /\ [](hit => pc = "done" /\ inflight = "none" /\ ~cacheOpen)
    /\ [][(hit /\ hit') =>
             UNCHANGED <<cache, offered, pageReqs, detailReqs, inflight>>]_vars

\* a cache hit with a record later on the same page and a row on a later
\* page that are not in the cache
C4_Witness ==
    /\ hit
    /\ pc = "done"
    /\ i <= Len(items)
    /\ make_hash(items[i]) \notin DOMAIN cache
    /\ \E r \in RowsFrom(page + 1) : make_hash(Record(r)) \notin DOMAIN cache

\* C5: when the parser yields no record for page M, no request for page M+1
\* is sent and the run ends normally, printing its count.
C5_EmptyPageStops ==
    (html # <<>> /\ ~ParseFails(html[1]) /\ parsed = <<>>)
        => pc = "done" /\ pageReqs = page /\ Len(printed) = 1

\* an empty page met after a page whose records were cached
C5_Witness ==
    /\ pc = "done"
    /\ html # <<>>
    /\ ~ParseFails(html[1])
    /\ parsed = <<>>
    /\ page >= 2
    /\ NewKeys # {}

\* C6 as stated: after a run aborted in page P, a clean re-run on the same
\* listing ends with every record of page P and of the later pages cached.
C6_RerunResumes ==
    (pc = "done" /\ abortedAt # <<>>)
        => \A r \in RowsFrom(abortedAt[1]) : make_hash(Record(r)) \in DOMAIN cache

\* C6 amended: after a run aborted in page P >= 2, a clean re-run on the same
\* listing stops at a cache hit on the first record it offers: it requests
\* page 1 only, inserts nothing and prints 0.
C6_RerunStopsAtFirstHit ==
    (pc = "done" /\ abortedAt # <<>> /\ abortedAt[1] >= 2)
        => /\ hit
           /\ cache = cache0
           /\ Cardinality(offered) = 1
           /\ pageReqs = 1
           /\ printed = <<0>>

\* a clean re-run after an abort in page P >= 2 that leaves a row of page P
\* uncached
C6_Witness ==
    /\ pc = "done"
    /\ abortedAt # <<>>
    /\ abortedAt[1] >= 2
    /\ \E r \in RowsFrom(abortedAt[1]) : make_hash(Record(r)) \notin DOMAIN cache

\* C7: when a run aborts in page P (request, parse or detail fetch), the
\* cache holds every record the run offered to it and is exactly the cache
\* of the moment the request for page P was sent.
C7_AbortKeepsPageStart ==
    (pc = "aborted" /\ page >= 1)
        => /\ cache = pageCache
           /\ \A o \in offered :
                 make_hash(o) \in DOMAIN cache /\ cache[make_hash(o)] = o

\* an abort in page 2 of a run that has cached the records of page 1
C7_Witness ==
    /\ pc = "aborted"
    /\ page >= 2
    /\ offered # {}
    /\ NewKeys # {}

\* C8: on any reachable cache and any record whose key is absent, the first
\* cache_object call returns False and stores the record, a second call
\* returns True, and the stored value is still the first call's.
C8_IdempotentInsert ==
    \A r \in Rows \cup {6, 7} :
        LET obj    == Record(r)
            key    == make_hash(obj)
            first  == cache_object(cache, obj)
            second == cache_object(first.store, obj)
        IN  key \notin DOMAIN cache =>
               /\ ~first.existed
               /\ key \in DOMAIN first.store
               /\ first.store[key] = obj
               /\ second.existed
               /\ second.store = first.store

\* a run in which the record that hit had been inserted by the run itself:
\* cache_object was called twice with it
C8_Witness ==
    /\ hit
    /\ i >= 2
    /\ make_hash(items[i - 1]) \notin DOMAIN cache0
    /\ cache[make_hash(items[i - 1])] = items[i - 1]

\* C9: no step deletes or overwrites a cache entry.
C9_AppendOnly ==
    [][\A k \in DOMAIN cache : k \in DOMAIN cache' /\ cache'[k] = cache[k]]_vars

\* a report written from a cache that earlier fetch runs filled
C9_Witness ==
    /\ Cardinality(DOMAIN cache) >= 2
    /\ Cardinality(written) >= 2

\* C10: on an exhausted result set (no table, or a table without rows)
\* parse_page yields nothing and the run ends on the empty-page path.
C10_ExhaustedParsesEmpty ==
    (html # <<>> /\ (~html[1].table \/ html[1].rows = <<>>))
        => pc = "done" /\ parsed = <<>>

\* two characters are the same letter, in either case
SameLetter(a, b) == (a + 1) \div 2 = (b + 1) \div 2

\* the text contains the term when case is ignored
ContainsIgnoringCase(text, term) ==
    \E s \in 0..(Len(text) - Len(term)) :
        \A j \in 1..Len(term) : SameLetter(text[s + j], term[j])

\* a filter tuple is empty or one of its terms is in the text
PassesFilter(text, terms) ==
    terms = <<>> \/ \E k \in 1..Len(terms) : ContainsIgnoringCase(text, terms[k])

\* the records the last report wrote a file for
Rendered == {w[2] : w \in written}

\* the records of the cache
Cached == {cache[k] : k \in DOMAIN cache}

\* C11: a report renders exactly the cached records whose organization
\* passes the org filter and whose summary passes the summary filter, a
\* filter being passed when it is empty or when one of its terms occurs in
\* the field, case ignored; with both filters empty it renders every cached
\* record.
C11_FilterSemantics ==
    report # <<>> =>
        /\ Rendered = {o \in Cached : /\ PassesFilter(o.org, report[1].org)
                                      /\ PassesFilter(o.summary, report[1].summary)}
        /\ (report[1].org = <<>> /\ report[1].summary = <<>>) => Rendered = Cached

\* a report with both filters set that keeps a record whose organization
\* differs in case from the term it matches, and drops another record
C11_Witness ==
    /\ report # <<>>
    /\ report[1].org # <<>>
    /\ report[1].summary # <<>>
    /\ \E o \in Rendered : ~includes_nolower(o.org, report[1].org)
    /\ Cached \ Rendered # {}

\* the paths the last report wrote a file to
Paths == {w[1] : w \in written}

\* C12: any two distinct cached records that pass the filters are written to
\* distinct paths, so a report leaves as many files as it rendered records.
C12_OneFilePerRecord ==
    /\ \A w1, w2 \in written : w1[2] # w2[2] => w1[1] # w2[1]
    /\ Cardinality(Paths) = Cardinality(Rendered)

\* the file name of a path: the slug and the head of the summary's hash
FileName(path) == <<path.slug, path.hash>>

\* C13: two rendered articles with the same title and the same date but
\* different summaries get different file names from make_path.
C13_SummaryTellsFilesApart ==
    \A o1, o2 \in Rendered :
        (o1.title = o2.title /\ o1.ts[1] = o2.ts[1] /\ o1.summary # o2.summary) =>
            FileName(make_path(o1.ts, o1.title, o1.summary))
                # FileName(make_path(o2.ts, o2.title, o2.summary))

\* C14: a report run, whatever its filters, leaves the cache as it found
\* it: the same keys with the same values.
C14_ReportReadsOnly ==
    [][report' # <<>> => cache' = cache]_vars

\* a filtered report over a cache of several records
C14_Witness ==
    /\ report # <<>>
    /\ report[1].summary # <<>>
    /\ Cardinality(DOMAIN cache) >= 2
    /\ written # {}

\* the orders in which the five fields of a record can be inserted
FieldOrders == Permutations(1..Len(InsertionOrder))

\* the items of a dict inserted in another order
Reordered(its, p) == [j \in 1..Len(its) |-> its[p[j]]]

\* the records of the portal's rows whose hash is the same whatever the
\* order their fields are inserted in
OrderFree ==
    {o \in {Record(r) : r \in Rows} :
        \A p \in FieldOrders : dumps(Reordered(dict_items(o), p)) = make_hash(o)}

\* C15: the hash of a record is that of its field names and values: built
\* with its fields inserted in any other order, the record handed to
\* cache_object hashes to the same key.
C15_HashIgnoresInsertionOrder ==
    pc = "cache" => items[i] \in OrderFree

\* cache_object is hashing a record whose fields were not inserted in key order
C15_Witness ==
    /\ pc = "cache"
    /\ cacheOpen
    /\ dict_items(items[i]) # make_hash(items[i])

\* C16: the browser is launched and closed before the first page request of
\* a fetch run, it is closed also when the navigation to the home page
\* fails, and no page or detail request is sent while it is open.
C16_BrowserBeforeCrawl ==
    /\ browser = "open" =>
           /\ inflight = "none"
           /\ pageReqs = 0
           /\ detailReqs = 0
    /\ (pageReqs > 0 \/ detailReqs > 0 \/ inflight # "none") =>
           /\ browser = "closed"
           /\ browserLog = <<"launch", "close">>
    /\ pc = "aborted" => browser = "closed"
    /\ (pc = "aborted" /\ browserLog # <<>>) => browserLog = <<"launch", "close">>

\* a fetch run that ended because the navigation to the home page failed
C16_Witness ==
    /\ pc = "aborted"
    /\ page = 0
    /\ pageReqs = 0
    /\ browserLog = <<"launch", "close">>

\* C17: during a fetch the cache store is open only inside cache_object: it
\* is closed after either return, and whenever the browser runs or a request
\* is under way.
C17_StoreOpenOnlyInCacheObject ==
    /\ cacheOpen => pc = "cache"
    /\ (browser = "open" \/ inflight # "none") => ~cacheOpen

\* a run that left cache_object through both returns: an insert, then a hit
C17_Witness ==
    /\ pc = "done"
    /\ hit
    /\ NewKeys # {}
    /\ ~cacheOpen

\* C18: the crawl stops through the empty-page rule only on a page whose
\* markup has no row; of a page with rows, every distinct record has been
\* offered to the cache when the crawl leaves the page, unless a cache hit
\* stopped it before.
C18_EmptyRuleOnlyWhenExhausted ==
    /\ (pc = "done" /\ ~hit) => parsed = <<>>
    /\ (pc = "sleep" \/ (pc = "done" /\ ~hit)) =>
           \A k \in 1..Len(parsed) : Enrich(parsed[k]) \in offered

\* C19: a fetch run that follows a completed fetch run and sees the same
\* pages inserts nothing: the cache is what it was, only page 1 was
\* requested and the run reports 0 new records.
C19_SecondRunInsertsNothing ==
    (pc = "done" /\ prevDone) =>
        /\ cache = cache0
        /\ pageReqs = 1
        /\ printed = <<0>>

\* the second run met, as the first record of page 1, a record the cache held
C19_Witness ==
    /\ pc = "done"
    /\ prevDone
    /\ hit
    /\ detailReqs >= 1
    /\ cache0 # EmptyStore

====
